---- MODULE Spec2Model ----
(***************************************************************************)
(* Adversarial economic simulator of the Pandacea protocol:                *)
(*   sims/engine/model.py  - agents, decision policies, the epoch engine   *)
(*                           (EconomicModel) and the result aggregator     *)
(*   sims/run_sweeps.py    - the sweep driver                              *)
(*                                                                         *)
(* Floats are fixed-point hundredths: ONE stands for 1.0, products are     *)
(* rounded down.  A draw of random.random() is a value u in 0..ONE-1.      *)
(***************************************************************************)
EXTENDS Integers, Sequences, FiniteSets, TLC

ONE == 100

(* ------------------------------ bounds --------------------------------- *)
MaxAgents == 2
MaxEpochs == 2
MaxGroupSize == 2
MaxRuns == 2
RngModulus == 16

(* --------------------- constants of the program ------------------------ *)
SolvencyFloor == 10
HonestReputation == 100
ColluderReputation == 80
GrieferReputation == 60
HoarderReputation == 90
HoardingTargetFactor == 5
MinGroupSize == 2
DisputeChance == 10
DefaultDecay == 1
StakeProbeWidth == 10

(* ------------------------------ helpers -------------------------------- *)
Min(a, b) == IF a < b THEN a ELSE b
Max(a, b) == IF a > b THEN a ELSE b
Abs(a) == IF a < 0 THEN -a ELSE a
Mul(a, b) == (a * b) \div ONE

RECURSIVE SumSeq(_)
SumSeq(s) == IF s = <<>> THEN 0 ELSE Head(s) + SumSeq(Tail(s))

RECURSIVE SelectSeqIdx(_, _)
(* indices i of s, in order, with s[i] in the set keep *)
SelectSeqIdx(s, keep) ==
    IF s = <<>> THEN <<>>
    ELSE LET rest == SelectSeqIdx(SubSeq(s, 1, Len(s) - 1), keep)
         IN IF s[Len(s)] \in keep THEN Append(rest, Len(s)) ELSE rest

Range(s) == { s[i] : i \in DOMAIN s }

(* random.uniform(lo, hi) from the raw draw u *)
uniform(lo, hi, u) == lo + Mul(hi - lo, u)
(* random.choice(seq) from the raw draw u *)
choice(seq, u) == seq[1 + ((u * Len(seq)) \div ONE)]

(* the key of a configuration document is present *)
Has(config, key) == key \notin config.absent

(* ------------------------------ agents --------------------------------- *)
Agent(agent_id, agent_type, initial_stake, initial_reputation) ==
    [ agent_id |-> agent_id, agent_type |-> agent_type,
      stake |-> initial_stake, reputation |-> initial_reputation,
      balance |-> 0, total_revenue |-> 0, total_losses |-> 0,
      disputes_won |-> 0, disputes_lost |-> 0, is_active |-> TRUE,
      collusion_group |-> <<>>, collusion_coordination |-> 0,
      griefing_intensity |-> 0,
      hoarding_target |-> 0, hoarding_strategy |-> "none" ]

HonestEarner_NumberedFromOne(agent_id, initial_stake) ==
    Agent(agent_id + 1, "honest", initial_stake, HonestReputation)

HonestEarner(agent_id, initial_stake) ==
    Agent(agent_id, "honest", initial_stake, HonestReputation)

Colluder(agent_id, initial_stake, collusion_group) ==
    [ Agent(agent_id, "colluder", initial_stake, ColluderReputation)
        EXCEPT !.collusion_group = collusion_group,
               !.collusion_coordination = 0 ]

Griefer(agent_id, initial_stake, u) ==
    [ Agent(agent_id, "griefer", initial_stake, GrieferReputation)
        EXCEPT !.griefing_intensity = uniform(50, 100, u) ]

Hoarder(agent_id, initial_stake) ==
    [ Agent(agent_id, "hoarder", initial_stake, HoarderReputation)
        EXCEPT !.hoarding_target = initial_stake * HoardingTargetFactor,
               !.hoarding_strategy = "accumulate" ]

get_stake_at_risk(agent) == Mul(agent.stake, ONE - agent.reputation)

is_solvent_Always(agent) == agent.stake >= 0

is_solvent(agent) == agent.stake >= SolvencyFloor

(* ------------------------- decision policies --------------------------- *)
(* Each policy returns the agent as the decision leaves it, the action and *)
(* the number of raw draws it consumed from d, read from position k on.    *)
ActionOf(agent, kind, committed, quality, collude, grief, hoard, group) ==
    [ action |-> kind, stake_committed |-> committed, quality |-> quality,
      collude |-> collude, grief |-> grief, hoard |-> hoard,
      collusion_group |-> group,
      agent_id |-> agent.agent_id, agent_type |-> agent.agent_type ]

HonestEarner_decide_action(agent, network_state, d, k) ==
    [ agent |-> agent,
      action |-> ActionOf(agent, "contribute", Min(Mul(agent.stake, 10), ONE),
                          uniform(80, 100, d[k]), FALSE, FALSE, FALSE, <<>>),
      used |-> 1 ]

Colluder_decide_action(agent, network_state, d, k) ==
    LET coordination ==
            IF agent.collusion_group # <<>>
            THEN Min(ONE, agent.collusion_coordination + 10)
            ELSE agent.collusion_coordination
        will_collude == d[k] < coordination
        a2 == [agent EXCEPT !.collusion_coordination = coordination]
    IN [ agent |-> a2,
         action |->
            IF will_collude
            THEN ActionOf(a2, "collude", Mul(agent.stake, 30),
                          uniform(30, 70, d[k + 1]), TRUE, FALSE, FALSE,
                          agent.collusion_group)
            ELSE ActionOf(a2, "contribute", Mul(agent.stake, 10),
                          uniform(60, 90, d[k + 1]), FALSE, FALSE, FALSE, <<>>),
         used |-> 2 ]

Griefer_decide_action_IgnoringLiveness(agent, network_state, d, k) ==
    LET will_grief == d[k] < agent.griefing_intensity
    IN [ agent |-> agent,
         action |->
            IF will_grief
            THEN ActionOf(agent, "grief", Mul(agent.stake, 50),
                          uniform(10, 40, d[k + 1]), FALSE, TRUE, FALSE, <<>>)
            ELSE ActionOf(agent, "contribute", Mul(agent.stake, 10),
                          uniform(50, 80, d[k + 1]), FALSE, FALSE, FALSE, <<>>),
         used |-> 2 ]

Griefer_decide_action(agent, network_state, d, k) ==
    LET grief_prob == Mul(agent.griefing_intensity, ONE - network_state.liveness)
        will_grief == d[k] < grief_prob
    IN [ agent |-> agent,
         action |->
            IF will_grief
            THEN ActionOf(agent, "grief", Mul(agent.stake, 50),
                          uniform(10, 40, d[k + 1]), FALSE, TRUE, FALSE, <<>>)
            ELSE ActionOf(agent, "contribute", Mul(agent.stake, 10),
                          uniform(50, 80, d[k + 1]), FALSE, FALSE, FALSE, <<>>),
         used |-> 2 ]

Hoarder_decide_action(agent, network_state, d, k) ==
    LET strategy == IF agent.stake >= agent.hoarding_target
                    THEN "influence" ELSE agent.hoarding_strategy
        a2 == [agent EXCEPT !.hoarding_strategy = strategy]
    IN [ agent |-> a2,
         action |->
            IF strategy = "accumulate"
            THEN ActionOf(a2, "contribute", Mul(agent.stake, 5),
                          uniform(70, 90, d[k]), FALSE, FALSE, TRUE, <<>>)
            ELSE ActionOf(a2, "influence", Mul(agent.stake, 30),
                          uniform(60, 80, d[k]), FALSE, FALSE, TRUE, <<>>),
         used |-> 1 ]

decide_action_Decaying(agent, network_state, d, k) ==
    LET r == CASE agent.agent_type = "honest" -> HonestEarner_decide_action(agent, network_state, d, k)
               [] agent.agent_type = "colluder" -> Colluder_decide_action(agent, network_state, d, k)
               [] agent.agent_type = "griefer" -> Griefer_decide_action(agent, network_state, d, k)
               [] OTHER -> Hoarder_decide_action(agent, network_state, d, k)
    IN [r EXCEPT !.agent.reputation = Max(0, Mul(@, ONE - DefaultDecay))]

decide_action(agent, network_state, d, k) ==
    CASE agent.agent_type = "honest" -> HonestEarner_decide_action(agent, network_state, d, k)
      [] agent.agent_type = "colluder" -> Colluder_decide_action(agent, network_state, d, k)
      [] agent.agent_type = "griefer" -> Griefer_decide_action(agent, network_state, d, k)
      [] OTHER -> Hoarder_decide_action(agent, network_state, d, k)

(* --------------------------- update_state ------------------------------ *)
(* The part every archetype shares: balance, revenue, losses, reputation.  *)
ClampReputation_NoCeiling(r) == Max(0, r)

ClampReputation(r) == Max(0, Min(ONE, r))

BaseUpdate_NetRevenue(agent, reward, penalty, reputation_change) ==
    [agent EXCEPT !.balance = @ + reward - penalty,
                  !.total_revenue = @ + reward - penalty,
                  !.total_losses = @ + penalty,
                  !.reputation = ClampReputation(@ + reputation_change)]

BaseUpdate(agent, reward, penalty, reputation_change) ==
    [agent EXCEPT !.balance = @ + reward - penalty,
                  !.total_revenue = @ + reward,
                  !.total_losses = @ + penalty,
                  !.reputation = ClampReputation(@ + reputation_change)]

HonestEarner_update_state(agent, reward, penalty, reputation_change) ==
    LET a2 == BaseUpdate(agent, reward, penalty, reputation_change)
    IN IF reward > 0
       THEN [a2 EXCEPT !.stake = @ + Mul(reward, 10)]
       ELSE a2

Colluder_update_state(agent, reward, penalty, reputation_change) ==
    LET a2 == BaseUpdate(agent, reward, penalty, reputation_change)
    IN IF penalty > reward
       THEN [a2 EXCEPT !.collusion_coordination = Max(0, @ - 20)]
       ELSE a2

Griefer_update_state(agent, reward, penalty, reputation_change) ==
    LET a2 == BaseUpdate(agent, reward, penalty, reputation_change)
    IN IF penalty > reward
       THEN [a2 EXCEPT !.griefing_intensity = Min(ONE, @ + 10)]
       ELSE [a2 EXCEPT !.griefing_intensity = Max(10, @ - 5)]

Hoarder_update_state_Unguarded(agent, reward, penalty, reputation_change) ==
    [BaseUpdate(agent, reward, penalty, reputation_change)
        EXCEPT !.stake = @ + Mul(reward - penalty, 80)]

Hoarder_update_state(agent, reward, penalty, reputation_change) ==
    LET a2 == BaseUpdate(agent, reward, penalty, reputation_change)
    IN IF reward > penalty
       THEN [a2 EXCEPT !.stake = @ + Mul(reward - penalty, 80)]
       ELSE a2

update_state(agent, reward, penalty, reputation_change) ==
    CASE agent.agent_type = "honest" -> HonestEarner_update_state(agent, reward, penalty, reputation_change)
      [] agent.agent_type = "colluder" -> Colluder_update_state(agent, reward, penalty, reputation_change)
      [] agent.agent_type = "griefer" -> Griefer_update_state(agent, reward, penalty, reputation_change)
      [] OTHER -> Hoarder_update_state(agent, reward, penalty, reputation_change)

(* ------------------------- EconomicModel ------------------------------- *)
RECURSIVE shuffle(_, _, _, _)
(* random.shuffle: for i = n-1 down to 1, swap x[i] and x[randbelow(i+1)]; *)
(* positions here are 1-based, the draws are d[k], d[k+1], ...             *)
shuffle(x, i, d, k) ==
    IF i < 2 THEN x
    ELSE LET j == 1 + ((d[k] * i) \div ONE)
             y == [x EXCEPT ![i] = x[j], ![j] = x[i]]
         IN shuffle(y, i - 1, d, k + 1)

RECURSIVE GroupsFrom(_, _, _)
RECURSIVE GroupsFrom_KeepSmall(_, _, _)
GroupsFrom_KeepSmall(colluder_ids, i, group_size) ==
    IF i >= Len(colluder_ids) THEN <<>>
    ELSE <<SubSeq(colluder_ids, i + 1, Min(Len(colluder_ids), i + group_size))>>
           \o GroupsFrom_KeepSmall(colluder_ids, i + group_size, group_size)

(* for i in range(i, n, group_size): keep colluder_ids[i:i+group_size]     *)
(* when it has at least MinGroupSize members (group_size >= 1)             *)
GroupsFrom(colluder_ids, i, group_size) ==
    IF i >= Len(colluder_ids) THEN <<>>
    ELSE LET group == SubSeq(colluder_ids, i + 1, Min(Len(colluder_ids), i + group_size))
             rest == GroupsFrom(colluder_ids, i + group_size, group_size)
         IN IF Len(group) >= MinGroupSize THEN <<group>> \o rest ELSE rest

create_collusion_groups(num_colluders, group_size, d, k) ==
    LET colluder_ids == shuffle([i \in 1..num_colluders |-> i - 1], num_colluders, d, k)
    IN GroupsFrom(colluder_ids, 0, group_size)

update_total_stake(agents) ==
    SumSeq([i \in 1..Len(agents) |-> IF agents[i].is_active THEN agents[i].stake ELSE 0])

(* int(total_agents * percentage) *)
CountOf(total_agents, percentage) == (total_agents * percentage) \div ONE

(* draws a shuffle of n identities consumes *)
ShuffleDraws(n) == Max(n - 1, 0)

(* initialize_agents appends to self.agents, numbering the agents it       *)
(* creates from 0; range() raises ValueError on a zero step, after the     *)
(* honest agents were appended.                                            *)
initialize_agents(agents0, stake_levels, dist, d) ==
    LET first == 0
        num_honest == CountOf(dist.total_agents, dist.honest_percentage)
        honest == [i \in 1..num_honest |->
                      HonestEarner(first + i - 1, choice(stake_levels, d[i]))]
        num_colluders == CountOf(dist.total_agents, dist.colluder_percentage)
        bad_step == dist.collusion_size = 0
        k1 == num_honest
        groups == IF bad_step THEN <<>>
                  ELSE create_collusion_groups(num_colluders, dist.collusion_size, d, k1 + 1)
        k2 == k1 + ShuffleDraws(num_colluders)
        colluders == [g \in 1..Len(groups) |->
                         Colluder(first + num_honest + g - 1,
                                  choice(stake_levels, d[k2 + g]), groups[g])]
        k3 == k2 + Len(groups)
        num_griefers == CountOf(dist.total_agents, dist.griefer_percentage)
        base_g == first + num_honest + Len(groups)
        griefers == [j \in 1..num_griefers |->
                        Griefer(base_g + j - 1,
                                choice(stake_levels, d[k3 + 2 * j - 1]), d[k3 + 2 * j])]
        k4 == k3 + 2 * num_griefers
        num_hoarders == CountOf(dist.total_agents, dist.hoarder_percentage)
        hoarders == [j \in 1..num_hoarders |->
                        Hoarder(base_g + num_griefers + j - 1,
                                choice(stake_levels, d[k4 + j]))]
    IN IF bad_step
       THEN [ raised |-> TRUE, agents |-> agents0 \o honest, used |-> k1 ]
       ELSE [ raised |-> FALSE,
              agents |-> agents0 \o honest \o colluders \o griefers \o hoarders,
              used |-> k4 + num_hoarders ]

ActiveAgents_Solvent(agents) == SelectSeq(agents, LAMBDA a : a.is_active /\ is_solvent(a))

(* [a for a in self.agents if a.is_active] *)
ActiveAgents(agents) == SelectSeq(agents, LAMBDA a : a.is_active)

(* _get_network_state; len(active)/len(self.agents) raises                 *)
(* ZeroDivisionError on an empty population                                *)
get_network_state(agents, total_stake, epoch) ==
    LET active == ActiveAgents(agents)
    IN IF Len(agents) = 0
       THEN [ raised |-> TRUE, total_agents |-> 0, total_stake |-> total_stake,
              average_reputation |-> 0, liveness |-> 0, epoch |-> epoch ]
       ELSE [ raised |-> FALSE,
              total_agents |-> Len(active),
              total_stake |-> total_stake,
              average_reputation |->
                 IF Len(active) = 0 THEN 0
                 ELSE SumSeq([i \in 1..Len(active) |-> active[i].reputation]) \div Len(active),
              liveness |-> (Len(active) * ONE) \div Len(agents),
              epoch |-> epoch ]

(* One iteration of the loop of _process_actions, for the action of agent. *)
(* A missing configuration key raises KeyError where the code reads it;    *)
(* detected/won/lost/resolved are the counter increments made before that. *)
process_action(config, agent, action, d, k) ==
    LET econ == config.economic
        att == config.attacks
        okA == Has(config, "economic.base_reward")
                 /\ Has(config, "economic.reputation_multiplier")
        reputation_multiplier == ONE + Mul(agent.reputation - 50, econ.reputation_multiplier)
        reward0 == Mul(Mul(econ.base_reward, action.quality), reputation_multiplier)
        branch == IF action.collude THEN "collude"
                  ELSE IF action.grief THEN "grief"
                  ELSE IF action.hoard THEN "hoard" ELSE "none"
        detected == branch = "collude" /\ d[k] < att.collusion_detection_prob
        okB == CASE branch = "collude" ->
                      Has(config, "attacks.collusion_detection_prob")
                        /\ (detected => Has(config, "attacks.collusion_penalty_multiplier"))
                 [] branch = "grief" ->
                      Has(config, "attacks.griefing_cost")
                        /\ Has(config, "attacks.griefing_effectiveness")
                 [] branch = "hoard" ->
                      Has(config, "attacks.hoarding_cost")
                        /\ Has(config, "attacks.hoarding_efficiency")
                 [] OTHER -> TRUE
        reward1 == IF branch = "collude" /\ ~detected THEN Mul(reward0, 150) ELSE reward0
        penalty1 == CASE branch = "collude" ->
                           IF detected THEN Mul(reward0, att.collusion_penalty_multiplier) ELSE 0
                      [] branch = "grief" -> att.griefing_cost
                      [] branch = "hoard" -> att.hoarding_cost
                      [] OTHER -> 0
        change1 == CASE branch = "collude" -> IF detected THEN -30 ELSE 0
                     [] branch = "grief" -> -20
                     [] branch = "hoard" -> IF d[k] < att.hoarding_efficiency THEN 10 ELSE 0
                     [] OTHER -> 0
        usedB == IF branch = "none" THEN 0 ELSE 1
        dispute == d[k + usedB] < DisputeChance
        okC == dispute => Has(config, "economic.dispute_cost")
        won == dispute /\ d[k + usedB + 1] < agent.reputation
        lost == dispute /\ ~won
        okD == lost => Has(config, "economic.dispute_penalty")
        raised == ~(okA /\ okB /\ okC /\ okD)
    IN [ raised |-> raised,
         detected |-> IF okA /\ okB /\ detected THEN 1 ELSE 0,
         won |-> IF okA /\ okB /\ okC /\ won THEN 1 ELSE 0,
         lost |-> IF okA /\ okB /\ okC /\ lost THEN 1 ELSE 0,
         resolved |-> IF ~raised /\ dispute THEN 1 ELSE 0,
         reward |-> IF won THEN reward1 + econ.dispute_cost ELSE reward1,
         penalty |-> IF lost THEN penalty1 + econ.dispute_penalty ELSE penalty1,
         reputation_change |-> IF lost THEN change1 - 10 ELSE change1,
         used |-> usedB + (IF dispute THEN 2 ELSE 1) ]

RevenueAfter_Net(revenue, p) == revenue + p.reward - p.penalty

(* line 434: self.total_revenue += reward *)
RevenueAfter(revenue, p) == revenue + p.reward

DisputesAfter_WonOnly(n, p) == n + p.won

(* line 431: self.dispute_resolutions += 1 *)
DisputesAfter(n, p) == n + p.resolved

OutcomeOf(action, p) ==
    [ agent_id |-> action.agent_id, agent_type |-> action.agent_type,
      reward |-> p.reward, penalty |-> p.penalty,
      reputation_change |-> p.reputation_change, action |-> action.action ]

(* the decay rate _apply_reputation_decay reads: config.get(key, 0.01)    *)
DecayRate(config) ==
    IF Has(config, "reputation_decay") THEN config.reputation_decay.scalar ELSE DefaultDecay

decay_reputation_Deactivating(agent, decay_rate) ==
    IF agent.is_active
    THEN [agent EXCEPT !.reputation = Max(0, Mul(@, ONE - decay_rate)),
                       !.is_active = is_solvent(agent)]
    ELSE agent

decay_reputation(agent, decay_rate) ==
    IF agent.is_active
    THEN [agent EXCEPT !.reputation = Max(0, Mul(@, ONE - decay_rate))]
    ELSE agent

apply_reputation_decay(config, agents) ==
    [i \in 1..Len(agents) |-> decay_reputation(agents[i], DecayRate(config))]

(* probe levels of the stake-at-risk curves: 0.5, 1, 2, 5, 10 *)
StakeProbes == {50, 100, 200, 500, 1000}

Mean(s) == IF s = <<>> THEN 0 ELSE SumSeq(s) \div Len(s)

NoResult ==
    [ honest_share_of_revenue |-> 0, expected_loss_for_honest |-> 0,
      stake_at_risk_curves |-> <<>>, liveness_score |-> 0,
      collusion_detection_rate |-> 0, griefing_effectiveness |-> 0,
      hoarding_influence |-> 0, total_transactions |-> 0,
      successful_attacks |-> 0, failed_attacks |-> 0 ]

(* get_simulation_result: ZeroDivisionError on an empty population or on a *)
(* zero total stake with hoarders, KeyError on a missing key               *)
get_simulation_result(config, agents, epoch, total_revenue, total_stake, collusion_detections) ==
    LET active_agents == ActiveAgents(agents)
        OfType(t) == SelectSeq(active_agents, LAMBDA a : a.agent_type = t)
        honest_agents == OfType("honest")
        total_honest_revenue ==
            SumSeq([i \in 1..Len(honest_agents) |-> honest_agents[i].total_revenue])
        honest_share == (total_honest_revenue * ONE) \div Max(ONE, total_revenue)
        expected_loss ==
            Mean([i \in 1..Len(honest_agents) |-> honest_agents[i].total_losses])
        AtLevel(level) ==
            SelectSeq(active_agents, LAMBDA a : Abs(a.stake - level) < StakeProbeWidth)
        levels == { level \in StakeProbes : AtLevel(level) # <<>> }
        stake_at_risk ==
            [ level \in levels |->
                Mean([i \in 1..Len(AtLevel(level)) |-> get_stake_at_risk(AtLevel(level)[i])]) ]
        colluder_agents == OfType("colluder")
        griefer_agents == OfType("griefer")
        hoarder_agents == OfType("hoarder")
        raised == \/ Len(agents) = 0
                  \/ (hoarder_agents # <<>> /\ total_stake = 0)
                  \/ ~Has(config, "simulation.transactions_per_epoch")
    IN IF raised THEN [ raised |-> TRUE, result |-> NoResult ]
       ELSE [ raised |-> FALSE,
              result |->
                [ honest_share_of_revenue |-> honest_share,
                  expected_loss_for_honest |-> expected_loss,
                  stake_at_risk_curves |-> stake_at_risk,
                  liveness_score |-> (Len(active_agents) * ONE) \div Len(agents),
                  collusion_detection_rate |->
                      (collusion_detections * ONE) \div Max(1, Len(colluder_agents)),
                  griefing_effectiveness |->
                      Mean([i \in 1..Len(griefer_agents) |-> griefer_agents[i].griefing_intensity]),
                  hoarding_influence |->
                      Mean([i \in 1..Len(hoarder_agents) |->
                               (hoarder_agents[i].stake * ONE) \div total_stake]),
                  total_transactions |-> epoch * config.simulation.transactions_per_epoch,
                  successful_attacks |-> collusion_detections,
                  failed_attacks |-> Len(colluder_agents) - collusion_detections ] ]

(* ------------------------- configurations ------------------------------ *)
Scalar(x) == [ isList |-> FALSE, list |-> <<>>, scalar |-> x ]
AxisList(l) == [ isList |-> TRUE, list |-> l, scalar |-> 0 ]

BaseConfig ==
    [ absent |-> {},
      seed |-> 1,
      stake_levels |-> <<10>>,
      reputation_decay |-> AxisList(<<1>>),
      collusion_size |-> <<2>>,
      sybil_cost |-> <<0>>,
      runs_per_point |-> 1,
      network |-> [ total_agents |-> 1, honest_percentage |-> ONE,
                    colluder_percentage |-> 0, griefer_percentage |-> 0,
                    hoarder_percentage |-> 0 ],
      economic |-> [ base_reward |-> 100, reputation_multiplier |-> 50,
                     dispute_cost |-> 10, dispute_penalty |-> 150 ],
      attacks |-> [ collusion_detection_prob |-> 50,
                    collusion_penalty_multiplier |-> 200,
                    griefing_cost |-> 10, griefing_effectiveness |-> 30,
                    hoarding_cost |-> 5, hoarding_efficiency |-> 50,
                    sybil_cost |-> 0 ],
      simulation |-> [ epochs |-> 1, warmup_epochs |-> 0,
                       transactions_per_epoch |-> 10 ] ]

(* population compositions: honest, colluder, griefer, hoarder shares that *)
(* sum to 1                                                                *)
Shares == {0, 50, ONE}
Compositions ==
    { c \in [ {"honest", "colluder", "griefer", "hoarder"} -> Shares ] :
        c["honest"] + c["colluder"] + c["griefer"] + c["hoarder"] = ONE }

NetworkOf(n, c) ==
    [ total_agents |-> n, honest_percentage |-> c["honest"],
      colluder_percentage |-> c["colluder"], griefer_percentage |-> c["griefer"],
      hoarder_percentage |-> c["hoarder"] ]

(* attacks section with every attack parameter zero *)
ZeroAttacks ==
    [ collusion_detection_prob |-> 0, collusion_penalty_multiplier |-> 0,
      griefing_cost |-> 0, griefing_effectiveness |-> 0,
      hoarding_cost |-> 0, hoarding_efficiency |-> 0, sybil_cost |-> 0 ]

(* rule profiles of the engine runs: a slow decay with collusion always   *)
(* detected and hoarding always efficient; a total decay with neither; a   *)
(* total decay with a base reward of 0.1, a reputation multiplier of 3 and *)
(* zero attack parameters                                                  *)
Profiles ==
    { [ decay |-> 1, economic |-> BaseConfig.economic,
        attacks |-> [BaseConfig.attacks EXCEPT !.collusion_detection_prob = ONE,
                                               !.hoarding_efficiency = ONE] ],
      [ decay |-> ONE, economic |-> BaseConfig.economic,
        attacks |-> [BaseConfig.attacks EXCEPT !.collusion_detection_prob = 0,
                                               !.hoarding_efficiency = 0] ],
      [ decay |-> ONE,
        economic |-> [BaseConfig.economic EXCEPT !.base_reward = 10,
                                                 !.reputation_multiplier = 300],
        attacks |-> ZeroAttacks ] }
StakeLevelLists == { <<5, 10>> }
(* raw draws: both sides of every threshold for random(), choice() and     *)
(* shuffle(); the middle of the range for uniform()                        *)
RandomValues == {0, 99}
UniformValues == {50}

EngineConfigs ==
    { [BaseConfig EXCEPT !.network = NetworkOf(n, c),
                         !.reputation_decay = Scalar(f.decay),
                         !.economic = f.economic,
                         !.attacks = f.attacks] :
        n \in 1..MaxAgents, c \in Compositions, f \in Profiles }

(* sequences of k raw draws, those at the positions in `uniforms` feeding  *)
(* random.uniform                                                          *)
DrawSeqs(k, uniforms) ==
    { f @@ g : f \in [ (1..k) \ uniforms -> RandomValues ],
               g \in [ (1..k) \cap uniforms -> UniformValues ] }

(* ------------------------------ state ---------------------------------- *)
VARIABLES
    config,               \* the configuration document (model.config is the same object)
    agents,               \* EconomicModel.agents
    epoch,                \* EconomicModel.epoch
    total_revenue,        \* EconomicModel.total_revenue
    total_stake,          \* EconomicModel.total_stake
    dispute_resolutions,  \* EconomicModel.dispute_resolutions
    collusion_detections, \* EconomicModel.collusion_detections
    pc,                   \* where the engine is: new, idle, decide, process, update,
                          \* decay, done, raised
    idx,                  \* position of the running loop of run_epoch
    network_state,        \* the snapshot of the running epoch
    actions,              \* the actions collected in the running epoch
    outcomes,             \* the outcomes computed in the running epoch
    epoch_result,         \* what the last run_epoch returned
    revenue_at_entry,     \* history: total_revenue when the running epoch began
    result,               \* what get_simulation_result returned
    rng,                  \* state of the global generator of module random
    sweep_pc,             \* where run_parameter_sweep is: none, start, loop, created,
                          \* running, done, raised
    smoke_test,           \* the smoke_test argument of run_parameter_sweep
    param_combinations,   \* the grid of the sweep
    runs_per_point,       \* repetitions per grid point
    comb_i,               \* the grid point being run (1-based)
    run_id,               \* the repetition being run
    results,              \* rows collected by the sweep
    attempts,             \* history: the calls of run_single_simulation made so far
    errors,               \* history: the repetitions whose exception was caught
    sensitivity_stats,    \* what calculate_parameter_sensitivity returned
    breaker,              \* a CircuitBreaker: its fields
    clock,                \* time.time()
    breaker_call,         \* history: the last CircuitBreaker.call and its outcome
    accountant,           \* a PrivacyAccountant: default_budget and state["users"]
    accountant_call       \* history: the last PrivacyAccountant operation

engine_vars == << agents, epoch, total_revenue, total_stake, dispute_resolutions,
                  collusion_detections, pc, idx, network_state, actions, outcomes,
                  epoch_result, revenue_at_entry, result >>
sweep_vars == << sweep_pc, smoke_test, param_combinations, runs_per_point, comb_i,
                 run_id, results, attempts, errors >>
aux_vars == << sensitivity_stats, breaker, clock, breaker_call, accountant,
               accountant_call >>
vars == << config, engine_vars, rng, sweep_vars, aux_vars >>

NoNetworkState ==
    [ raised |-> FALSE, total_agents |-> 0, total_stake |-> 0,
      average_reputation |-> 0, liveness |-> 0, epoch |-> 0 ]
NoEpochResult ==
    [ epoch |-> 0, total_revenue |-> 0, total_stake |-> 0, active_agents |-> 0,
      outcomes |-> <<>> ]

(* EconomicModel.__init__ *)
NewModel ==
    /\ agents = <<>>
    /\ epoch = 0
    /\ total_revenue = 0
    /\ total_stake = 0
    /\ dispute_resolutions = 0
    /\ collusion_detections = 0
    /\ pc = "new"
    /\ idx = 0
    /\ network_state = NoNetworkState
    /\ actions = <<>>
    /\ outcomes = <<>>
    /\ epoch_result = NoEpochResult
    /\ revenue_at_entry = 0
    /\ result = NoResult

NoSweep ==
    /\ smoke_test = FALSE
    /\ param_combinations = <<>>
    /\ runs_per_point = 0
    /\ comb_i = 0
    /\ run_id = 0
    /\ results = <<>>
    /\ attempts = <<>>
    /\ errors = <<>>

(* calculate_parameter_sensitivity not called yet *)
NoSensitivity == [ raised |-> FALSE, rows |-> <<>> ]

(* CircuitBreaker.__init__; None is the last_failure_time of a breaker     *)
(* that never failed                                                       *)
None == -1
CircuitBreaker(failure_threshold, reset_timeout) ==
    [ failure_threshold |-> failure_threshold, reset_timeout |-> reset_timeout,
      state |-> "closed", failure_count |-> 0, last_failure_time |-> None,
      success_count |-> 0 ]
(* n calls so far; the last one began at time `at` on the breaker `before`, *)
(* with a function that raises or not; invoked: the function was called;   *)
(* outcome: returned, raised (the function's exception) or rejected        *)
(* (CircuitBreakerOpenError); run: the failed invocations in a row up to   *)
(* and including it                                                        *)
NoBreakerCall ==
    [ n |-> 0, at |-> 0, before |-> CircuitBreaker(0, 0), invoked |-> FALSE,
      func_raises |-> FALSE, outcome |-> "none", run |-> 0 ]

(* PrivacyAccountant.__init__ without a state file: _get_default_state *)
PrivacyAccountant(default_budget) ==
    [ default_budget |-> default_budget, users |-> << >> ]
(* n operations so far; the last one with its arguments, the accountant    *)
(* before it, the budget the user had available before it and what it      *)
(* returned; unfixed: the users whose budget was set after they had        *)
(* consumed epsilon                                                        *)
NoAccountantCall ==
    [ n |-> 0, op |-> "none", user_id |-> "", epsilon |-> 0,
      before |-> PrivacyAccountant(0), available |-> 0, returned |-> FALSE,
      unfixed |-> {} ]

(* no report, no breaker in use, no accountant in use *)
NoSdk ==
    /\ breaker = CircuitBreaker(0, 0)
    /\ clock = 0
    /\ breaker_call = NoBreakerCall
    /\ accountant = PrivacyAccountant(0)
    /\ accountant_call = NoAccountantCall

(* The engine alone: a model built on a complete configuration whose       *)
(* reputation_decay is the rate of the run; draws are arbitrary.           *)
Init ==
    /\ config \in EngineConfigs
    /\ NewModel
    /\ rng = 0
    /\ sweep_pc = "none"
    /\ NoSweep
    /\ sensitivity_stats = NoSensitivity
    /\ NoSdk

(* --------------------------- the generator ----------------------------- *)
NextRng(s) == (5 * s + 3) % RngModulus
RECURSIVE Advance(_, _)
Advance(s, n) == IF n = 0 THEN s ELSE Advance(NextRng(s), n - 1)
(* the next k raw draws of the generator in state s *)
Stream(s, k) == [ i \in 1..k |-> (Advance(s, i) * ONE) \div RngModulus ]
(* random.seed(n) *)
seed(n) == n % RngModulus

(* the generator after an operation that consumed `used` draws; an         *)
(* operation fed with arbitrary draws leaves it alone                      *)
Consume(seeded, used) == rng' = IF seeded THEN Advance(rng, used) ELSE rng

(* draws one operation may consume *)
InitDraws == 2 * MaxAgents + MaxAgents
DecideDraws == 2
ProcessDraws == 3

(* --------------------------- engine steps ------------------------------ *)
(* model.initialize_agents(stake_levels, agent_distribution) *)
InitializeAgents(stake_levels, dist, d, seeded) ==
    /\ pc = "new"
    /\ LET r == initialize_agents(agents, stake_levels, dist, d)
       IN /\ agents' = r.agents
          /\ total_stake' = IF r.raised THEN total_stake ELSE update_total_stake(r.agents)
          /\ pc' = IF r.raised THEN "raised" ELSE "idle"
          /\ Consume(seeded, r.used)
    /\ UNCHANGED << config, epoch, total_revenue, dispute_resolutions,
                    collusion_detections, idx, network_state, actions, outcomes,
                    epoch_result, revenue_at_entry, result, sweep_vars, aux_vars >>

(* run_epoch, lines 314-320: the counter, the snapshot, the empty list *)
RunEpochBegin(limit) ==
    /\ pc = "idle"
    /\ epoch < limit
    /\ epoch' = epoch + 1
    /\ LET ns == get_network_state(agents, total_stake, epoch + 1)
       IN /\ network_state' = ns
          /\ pc' = IF ns.raised THEN "raised" ELSE "decide"
    /\ idx' = 1
    /\ actions' = <<>>
    /\ outcomes' = <<>>
    /\ revenue_at_entry' = total_revenue
    /\ UNCHANGED << config, agents, total_revenue, total_stake, dispute_resolutions,
                    collusion_detections, epoch_result, result, rng, sweep_vars, aux_vars >>

(* run_epoch, lines 321-326: one iteration of the loop over self.agents *)
DecideAction(d, seeded) ==
    /\ pc = "decide"
    /\ LET agent == agents[idx]
           asked == agent.is_active /\ is_solvent(agent)
           r == decide_action(agent, network_state, d, 1)
           collected == IF asked THEN Append(actions, r.action) ELSE actions
       IN /\ agents' = IF asked THEN [agents EXCEPT ![idx] = r.agent] ELSE agents
          /\ actions' = collected
          /\ Consume(seeded, IF asked THEN r.used ELSE 0)
          /\ IF idx < Len(agents)
             THEN /\ idx' = idx + 1
                  /\ pc' = "decide"
             ELSE /\ idx' = 1
                  /\ pc' = IF collected = <<>> THEN "decay" ELSE "process"
    /\ UNCHANGED << config, epoch, total_revenue, total_stake, dispute_resolutions,
                    collusion_detections, network_state, outcomes, epoch_result,
                    revenue_at_entry, result, sweep_vars, aux_vars >>

(* _process_actions: one iteration of the loop over the actions *)
ProcessAction(d, seeded) ==
    /\ pc = "process"
    /\ LET action == actions[idx]
           i == action.agent_id + 1
           p == process_action(config, agents[i], action, d, 1)
       IN /\ agents' = [agents EXCEPT ![i].disputes_won = @ + p.won,
                                      ![i].disputes_lost = @ + p.lost]
          /\ collusion_detections' = collusion_detections + p.detected
          /\ dispute_resolutions' = DisputesAfter(dispute_resolutions, p)
          /\ total_revenue' = IF p.raised THEN total_revenue
                              ELSE RevenueAfter(total_revenue, p)
          /\ outcomes' = IF p.raised THEN outcomes
                         ELSE Append(outcomes, OutcomeOf(action, p))
          /\ Consume(seeded, p.used)
          /\ IF p.raised
             THEN /\ pc' = "raised"
                  /\ idx' = idx
             ELSE IF idx < Len(actions)
             THEN /\ pc' = "process"
                  /\ idx' = idx + 1
             ELSE /\ pc' = "update"
                  /\ idx' = 1
    /\ UNCHANGED << config, epoch, total_stake, network_state, actions, epoch_result,
                    revenue_at_entry, result, sweep_vars, aux_vars >>

(* run_epoch, lines 332-338: one iteration of the loop over the outcomes *)
UpdateState ==
    /\ pc = "update"
    /\ LET outcome == outcomes[idx]
           i == outcome.agent_id + 1
       IN agents' = [agents EXCEPT ![i] =
                        update_state(@, outcome.reward, outcome.penalty,
                                     outcome.reputation_change)]
    /\ IF idx < Len(outcomes)
       THEN /\ pc' = "update"
            /\ idx' = idx + 1
       ELSE /\ pc' = "decay"
            /\ idx' = 0
    /\ UNCHANGED << config, epoch, total_revenue, total_stake, dispute_resolutions,
                    collusion_detections, network_state, actions, outcomes,
                    epoch_result, revenue_at_entry, result, rng, sweep_vars, aux_vars >>

(* run_epoch, lines 341-352: decay, total stake, the returned summary;    *)
(* 1 - decay_rate raises TypeError when the configuration holds a list     *)
FinishEpoch ==
    /\ pc = "decay"
    /\ IF Has(config, "reputation_decay") /\ config.reputation_decay.isList
       THEN /\ pc' = "raised"
            /\ UNCHANGED << agents, total_stake, epoch_result >>
       ELSE LET decayed == apply_reputation_decay(config, agents)
            IN /\ agents' = decayed
               /\ total_stake' = update_total_stake(decayed)
               /\ epoch_result' =
                     [ epoch |-> epoch, total_revenue |-> total_revenue,
                       total_stake |-> update_total_stake(decayed),
                       active_agents |-> Len(ActiveAgents(decayed)),
                       outcomes |-> outcomes ]
               /\ pc' = "idle"
    /\ idx' = 0
    /\ UNCHANGED << config, epoch, total_revenue, dispute_resolutions,
                    collusion_detections, network_state, actions, outcomes,
                    revenue_at_entry, result, rng, sweep_vars, aux_vars >>

(* model.get_simulation_result(), called between epochs *)
GetSimulationResult ==
    /\ pc = "idle"
    /\ LET r == get_simulation_result(config, agents, epoch, total_revenue,
                                      total_stake, collusion_detections)
       IN /\ result' = r.result
          /\ pc' = IF r.raised THEN "raised" ELSE "done"
    /\ UNCHANGED << config, agents, epoch, total_revenue, total_stake,
                    dispute_resolutions, collusion_detections, idx, network_state,
                    actions, outcomes, epoch_result, revenue_at_entry, rng, sweep_vars, aux_vars >>

(* ----------------------- the engine, arbitrary draws ------------------- *)
(* position before the draws of the griefers in initialize_agents *)
GrieferDrawsFrom(dist) ==
    LET num_colluders == CountOf(dist.total_agents, dist.colluder_percentage)
    IN CountOf(dist.total_agents, dist.honest_percentage)
         + ShuffleDraws(num_colluders)
         + Len(GroupsFrom([i \in 1..num_colluders |-> i], 0, dist.collusion_size))

(* positions of the draws of initialize_agents that feed random.uniform:  *)
(* the second draw of every Griefer                                        *)
InitUniforms(dist) ==
    { GrieferDrawsFrom(dist) + 2 * j :
        j \in 1..CountOf(dist.total_agents, dist.griefer_percentage) }

(* draws initialize_agents consumes *)
InitDrawCount(dist) ==
    GrieferDrawsFrom(dist)
      + 2 * CountOf(dist.total_agents, dist.griefer_percentage)
      + CountOf(dist.total_agents, dist.hoarder_percentage)

(* positions of the draws of a decision that feed random.uniform *)
DecideUniforms(agent) ==
    IF agent.agent_type \in {"colluder", "griefer"} THEN {2} ELSE {1}

DistributionOf(cfg, size) ==
    [ total_agents |-> cfg.network.total_agents,
      honest_percentage |-> cfg.network.honest_percentage,
      colluder_percentage |-> cfg.network.colluder_percentage,
      griefer_percentage |-> cfg.network.griefer_percentage,
      hoarder_percentage |-> cfg.network.hoarder_percentage,
      collusion_size |-> size ]

Initialize ==
    \E stake_levels \in StakeLevelLists, size \in 1..MaxGroupSize :
        \E d \in DrawSeqs(InitDrawCount(DistributionOf(config, size)),
                          InitUniforms(DistributionOf(config, size))) :
            InitializeAgents(stake_levels, DistributionOf(config, size), d, FALSE)

RunEpoch == RunEpochBegin(MaxEpochs)

Decide ==
    /\ pc = "decide"
    /\ \E d \in DrawSeqs(DecideDraws, DecideUniforms(agents[idx])) : DecideAction(d, FALSE)

Process == \E d \in DrawSeqs(ProcessDraws, {}) : ProcessAction(d, FALSE)

Next ==
    \/ Initialize
    \/ RunEpoch
    \/ Decide
    \/ Process
    \/ UpdateState
    \/ FinishEpoch
    \/ GetSimulationResult

Spec == Init /\ [][Next]_vars

(* --------------------------- the sweep driver -------------------------- *)
Composition(h, c, g, o) ==
    [ x \in {"honest", "colluder", "griefer", "hoarder"} |->
        CASE x = "honest" -> h [] x = "colluder" -> c [] x = "griefer" -> g [] OTHER -> o ]

SweepCompositions ==
    { Composition(ONE, 0, 0, 0), Composition(0, ONE, 0, 0),
      Composition(50, 0, 50, 0), Composition(0, 0, 0, ONE) }

(* grids: one point; two values on three axes; an axis that repeats a value *)
Grids ==
    { [ stake_levels |-> <<10>>, reputation_decay |-> <<1>>,
        collusion_size |-> <<2>>, sybil_cost |-> <<0>> ],
      [ stake_levels |-> <<5, 10>>, reputation_decay |-> <<1, ONE>>,
        collusion_size |-> <<1, 2>>, sybil_cost |-> <<0>> ],
      [ stake_levels |-> <<10>>, reputation_decay |-> <<1, ONE, 1>>,
        collusion_size |-> <<2>>, sybil_cost |-> <<0, 5>> ] }

(* keys a configuration document may lack *)
AbsentKeys ==
    { {}, {"seed"}, {"economic.base_reward"}, {"economic.dispute_cost"},
      {"simulation.transactions_per_epoch"}, {"stake_levels"} }

SweepConfigs ==
    { [BaseConfig EXCEPT !.absent = a,
                         !.stake_levels = g.stake_levels,
                         !.reputation_decay = AxisList(g.reputation_decay),
                         !.collusion_size = g.collusion_size,
                         !.sybil_cost = g.sybil_cost,
                         !.runs_per_point = r,
                         !.network = NetworkOf(n, c),
                         !.simulation.epochs = e,
                         !.simulation.warmup_epochs = w] :
        a \in AbsentKeys, g \in Grids, r \in 1..MaxRuns, n \in 1..MaxAgents,
        c \in SweepCompositions, e \in 1..MaxEpochs, w \in 0..(MaxEpochs - 1) }

Product4_LastAxisFirstOnly(a, b, c, e) ==
    [ i \in 1..(Len(a) * Len(b) * Len(c)) |->
        << a[1 + (((i - 1) \div (Len(b) * Len(c))) % Len(a))],
           b[1 + (((i - 1) \div Len(c)) % Len(b))],
           c[1 + ((i - 1) % Len(c))],
           e[1] >> ]

(* itertools.product of four lists, the last axis varying fastest *)
Product4(a, b, c, e) ==
    [ i \in 1..(Len(a) * Len(b) * Len(c) * Len(e)) |->
        << a[1 + (((i - 1) \div (Len(b) * Len(c) * Len(e))) % Len(a))],
           b[1 + (((i - 1) \div (Len(c) * Len(e))) % Len(b))],
           c[1 + (((i - 1) \div Len(e)) % Len(c))],
           e[1 + ((i - 1) % Len(e))] >> ]

First(l) == <<l[1]>>

(* the row run_single_simulation returns *)
RowOf(id, combo, r, revenue, stake, disputes, detections) ==
    [ run_id |-> id, stake_level |-> combo[1], reputation_decay |-> combo[2],
      collusion_size |-> combo[3], sybil_cost |-> combo[4],
      honest_share_of_revenue |-> r.honest_share_of_revenue,
      expected_loss_for_honest |-> r.expected_loss_for_honest,
      liveness_score |-> r.liveness_score,
      collusion_detection_rate |-> r.collusion_detection_rate,
      griefing_effectiveness |-> r.griefing_effectiveness,
      hoarding_influence |-> r.hoarding_influence,
      total_transactions |-> r.total_transactions,
      successful_attacks |-> r.successful_attacks,
      failed_attacks |-> r.failed_attacks,
      total_revenue |-> revenue, total_stake |-> stake,
      dispute_resolutions |-> disputes, collusion_detections |-> detections ]

SweepInit ==
    /\ config \in SweepConfigs
    /\ NewModel
    /\ rng = 0
    /\ sweep_pc = "start"
    /\ NoSweep
    /\ sensitivity_stats = NoSensitivity
    /\ NoSdk

(* run_parameter_sweep, lines 116-140: the axes and the grid *)
RunParameterSweep(smoke) ==
    /\ sweep_pc = "start"
    /\ smoke_test' = smoke
    /\ IF \/ ~Has(config, "stake_levels") \/ ~Has(config, "reputation_decay")
          \/ ~Has(config, "collusion_size") \/ ~Has(config, "sybil_cost")
          \/ (~smoke /\ ~Has(config, "runs_per_point"))
       THEN /\ sweep_pc' = "raised"
            /\ UNCHANGED << param_combinations, runs_per_point >>
       ELSE LET combos ==
                  IF smoke
                  THEN Product4(First(config.stake_levels),
                                First(config.reputation_decay.list),
                                First(config.collusion_size), First(config.sybil_cost))
                  ELSE Product4(config.stake_levels, config.reputation_decay.list,
                                config.collusion_size, config.sybil_cost)
                runs == IF smoke THEN 1 ELSE config.runs_per_point
            IN /\ param_combinations' = combos
               /\ runs_per_point' = runs
               /\ sweep_pc' = IF Len(combos) = 0 \/ runs = 0 THEN "done" ELSE "loop"
    /\ comb_i' = 1
    /\ run_id' = 0
    /\ UNCHANGED << config, engine_vars, rng, results, attempts, errors, aux_vars >>

(* the loops of lines 142 and 150 move to the next repetition *)
NextRepetition ==
    IF run_id + 1 < runs_per_point
    THEN /\ run_id' = run_id + 1
         /\ comb_i' = comb_i
         /\ sweep_pc' = "loop"
    ELSE IF comb_i < Len(param_combinations)
    THEN /\ run_id' = 0
         /\ comb_i' = comb_i + 1
         /\ sweep_pc' = "loop"
    ELSE /\ run_id' = run_id
         /\ comb_i' = comb_i
         /\ sweep_pc' = "done"

(* a break in place of the continue: the rest of the grid point is skipped *)
BreakAfterError ==
    IF comb_i < Len(param_combinations)
    THEN /\ run_id' = 0
         /\ comb_i' = comb_i + 1
         /\ sweep_pc' = "loop"
    ELSE /\ run_id' = run_id
         /\ comb_i' = comb_i
         /\ sweep_pc' = "done"

(* line 159: continue, the loop of line 150 goes on *)
ContinueAfterError == NextRepetition

NetworkKeys ==
    { "network.total_agents", "network.honest_percentage", "network.colluder_percentage",
      "network.griefer_percentage", "network.hoarder_percentage" }

(* the generator left as the previous run left it *)
Reseed_Stale(cfg, id) == rng

(* random.seed(config['seed'] + run_id) *)
Reseed(cfg, id) == seed(cfg.seed + id)

(* run_single_simulation, lines 54-68: the seed, the model, the distribution *)
CreateModel ==
    /\ sweep_pc = "loop"
    /\ attempts' = Append(attempts, << comb_i, run_id >>)
    /\ sweep_pc' = "created"
    /\ rng' = IF Has(config, "seed") THEN Reseed(config, run_id) ELSE rng
    /\ agents' = <<>>
    /\ epoch' = 0
    /\ total_revenue' = 0
    /\ total_stake' = 0
    /\ dispute_resolutions' = 0
    /\ collusion_detections' = 0
    /\ pc' = IF Has(config, "seed") /\ NetworkKeys \cap config.absent = {}
             THEN "new" ELSE "raised"
    /\ idx' = 0
    /\ network_state' = NoNetworkState
    /\ actions' = <<>>
    /\ outcomes' = <<>>
    /\ epoch_result' = NoEpochResult
    /\ revenue_at_entry' = 0
    /\ result' = NoResult
    /\ UNCHANGED << config, smoke_test, param_combinations, runs_per_point, comb_i,
                    run_id, results, errors, aux_vars >>

(* line 70: model.initialize_agents([stake_level], agent_distribution) *)
SweepInitialize ==
    /\ sweep_pc = "created"
    /\ InitializeAgents(<< param_combinations[comb_i][1] >>,
                        DistributionOf(config, param_combinations[comb_i][3]),
                        Stream(rng, InitDraws), TRUE)

(* lines 73-78: the parameters of the run written into the configuration,  *)
(* the run length read from it                                             *)
ConfigureRun ==
    /\ sweep_pc = "created"
    /\ pc = "idle"
    /\ config' = [config EXCEPT
                     !.absent = @ \ {"reputation_decay", "attacks.sybil_cost"},
                     !.reputation_decay = Scalar(param_combinations[comb_i][2]),
                     !.attacks.sybil_cost = param_combinations[comb_i][4]]
    /\ sweep_pc' = "running"
    /\ pc' = IF Has(config, "simulation.epochs") /\ Has(config, "simulation.warmup_epochs")
             THEN "idle" ELSE "raised"
    /\ UNCHANGED << agents, epoch, total_revenue, total_stake, dispute_resolutions,
                    collusion_detections, idx, network_state, actions, outcomes,
                    epoch_result, revenue_at_entry, result, rng, smoke_test,
                    param_combinations, runs_per_point, comb_i, run_id, results,
                    attempts, errors, aux_vars >>

(* lines 80-85: for epoch in range(epochs): model.run_epoch(); the test   *)
(* epoch < warmup_epochs only continues the loop                          *)
SweepRunEpoch ==
    /\ sweep_pc = "running"
    /\ RunEpochBegin(config.simulation.epochs)

SweepDecide ==
    /\ sweep_pc = "running"
    /\ DecideAction(Stream(rng, DecideDraws), TRUE)

SweepProcess ==
    /\ sweep_pc = "running"
    /\ ProcessAction(Stream(rng, ProcessDraws), TRUE)

(* lines 88-110 and 156: the result, the row, results.append(result) *)
FinishRun ==
    /\ sweep_pc = "running"
    /\ pc = "idle"
    /\ epoch >= config.simulation.epochs
    /\ LET r == get_simulation_result(config, agents, epoch, total_revenue,
                                      total_stake, collusion_detections)
       IN IF r.raised
          THEN /\ pc' = "raised"
               /\ UNCHANGED << result, results, sweep_pc, comb_i, run_id >>
          ELSE /\ pc' = "done"
               /\ result' = r.result
               /\ results' = Append(results,
                                RowOf(run_id, param_combinations[comb_i], r.result,
                                      total_revenue, total_stake, dispute_resolutions,
                                      collusion_detections))
               /\ NextRepetition
    /\ UNCHANGED << config, agents, epoch, total_revenue, total_stake,
                    dispute_resolutions, collusion_detections, idx, network_state,
                    actions, outcomes, epoch_result, revenue_at_entry, rng, smoke_test,
                    param_combinations, runs_per_point, attempts, errors, aux_vars >>

(* lines 157-159: except Exception: print, continue *)
CatchException ==
    /\ sweep_pc \in {"created", "running"}
    /\ pc = "raised"
    /\ errors' = Append(errors, << comb_i, run_id >>)
    /\ ContinueAfterError
    /\ UNCHANGED << config, engine_vars, rng, smoke_test, param_combinations,
                    runs_per_point, results, attempts, aux_vars >>

(* ------------------- calculate_parameter_sensitivity ------------------- *)
SensitivityParams == << "stake_level", "reputation_decay", "collusion_size", "sybil_cost" >>
SensitivityMetrics == << "honest_share_of_revenue", "expected_loss_for_honest", "liveness_score" >>

RECURSIVE SortedSeq(_)
SortedSeq(S) ==
    IF S = {} THEN <<>>
    ELSE LET m == CHOOSE x \in S : \A y \in S : x <= y
         IN << m >> \o SortedSeq(S \ {m})

SeqMin(l) == CHOOSE x \in Range(l) : \A y \in Range(l) : x <= y
SeqMax(l) == CHOOSE x \in Range(l) : \A y \in Range(l) : x >= y

(* df.groupby(param)[metric].mean(): the distinct values of the column in  *)
(* ascending order and the mean of the metric over the rows of each        *)
GroupMeans(df, param, metric) ==
    LET index == SortedSeq({ df[i][param] : i \in DOMAIN df })
        RowsAt(v) == SelectSeq(df, LAMBDA row : row[param] = v)
    IN [ index |-> index,
         values |-> [ k \in 1..Len(index) |->
                        Mean([ i \in 1..Len(RowsAt(index[k])) |->
                                 RowsAt(index[k])[i][metric] ]) ] ]

(* np.polyfit(x, y, 1)[0], the least-squares slope, in hundredths; a       *)
(* single abscissa has no slope and the fit is rank deficient              *)
polyfit_slope(x, y) ==
    LET n == Len(x)
        sx == SumSeq(x)
        sy == SumSeq(y)
        sxy == SumSeq([ i \in 1..n |-> x[i] * y[i] ])
        sxx == SumSeq([ i \in 1..n |-> x[i] * x[i] ])
        den == n * sxx - sx * sx
    IN IF den = 0 THEN 0 ELSE ((n * sxy - sx * sy) * ONE) \div den

HasSlope_Always(grouped) == TRUE

(* lines 232 and 237: if len(grouped) > 1, if len(param_values) > 1 *)
HasSlope(grouped) == Len(grouped.index) > 1

SensitivityRow(param, metric, grouped) ==
    [ parameter |-> param, metric |-> metric,
      sensitivity |-> polyfit_slope(grouped.index, grouped.values),
      min_value |-> SeqMin(grouped.index), max_value |-> SeqMax(grouped.index),
      min_metric |-> SeqMin(grouped.values), max_metric |-> SeqMax(grouped.values),
      metric_range |-> SeqMax(grouped.values) - SeqMin(grouped.values) ]

(* a table without rows has no columns: groupby raises KeyError *)
calculate_parameter_sensitivity(df) ==
    LET pairs == [ k \in 1..(Len(SensitivityParams) * Len(SensitivityMetrics)) |->
                     << SensitivityParams[1 + ((k - 1) \div Len(SensitivityMetrics))],
                        SensitivityMetrics[1 + ((k - 1) % Len(SensitivityMetrics))] >> ]
        kept == SelectSeq(pairs, LAMBDA pr : HasSlope(GroupMeans(df, pr[1], pr[2])))
    IN IF df = <<>>
       THEN [ raised |-> TRUE, rows |-> <<>> ]
       ELSE [ raised |-> FALSE,
              rows |-> [ k \in 1..Len(kept) |->
                           SensitivityRow(kept[k][1], kept[k][2],
                                          GroupMeans(df, kept[k][1], kept[k][2])) ] ]

(* calculate_parameter_sensitivity(results_df) on the table of the sweep *)
CalculateParameterSensitivity ==
    /\ sweep_pc = "done"
    /\ sweep_pc' = "analysed"
    /\ sensitivity_stats' = calculate_parameter_sensitivity(results)
    /\ UNCHANGED << config, engine_vars, rng, smoke_test, param_combinations,
                    runs_per_point, comb_i, run_id, results, attempts, errors,
                    breaker, clock, breaker_call, accountant, accountant_call >>

SweepStart == \E smoke \in BOOLEAN : RunParameterSweep(smoke)

SweepNext ==
    \/ SweepStart
    \/ CreateModel
    \/ SweepInitialize
    \/ ConfigureRun
    \/ SweepRunEpoch
    \/ SweepDecide
    \/ SweepProcess
    \/ UpdateState
    \/ FinishEpoch
    \/ FinishRun
    \/ CatchException
    \/ CalculateParameterSensitivity

SweepSpec == SweepInit /\ [][SweepNext]_vars

(* ------------- the engine on populations of colluders ------------------ *)
(* Runs of the engine on colluders only, enough of them for several        *)
(* groups, with the draws of a seeded generator.                           *)
MaxColluders == 5

CollusionConfigs ==
    { [BaseConfig EXCEPT !.network = NetworkOf(n, Composition(0, ONE, 0, 0)),
                         !.collusion_size = <<size>>,
                         !.reputation_decay = Scalar(DefaultDecay),
                         !.simulation.epochs = e] :
        n \in 1..MaxColluders, size \in 1..(MaxGroupSize + 1), e \in 1..MaxEpochs }

CollusionInit ==
    /\ config \in CollusionConfigs
    /\ NewModel
    /\ rng \in 0..(RngModulus - 1)
    /\ sweep_pc = "none"
    /\ NoSweep
    /\ sensitivity_stats = NoSensitivity
    /\ NoSdk

CollusionInitialize ==
    LET dist == DistributionOf(config, config.collusion_size[1])
    IN InitializeAgents(<<SolvencyFloor>>, dist, Stream(rng, InitDrawCount(dist)), TRUE)

CollusionRunEpoch == RunEpochBegin(config.simulation.epochs)

CollusionDecide == DecideAction(Stream(rng, DecideDraws), TRUE)

CollusionProcess == ProcessAction(Stream(rng, ProcessDraws), TRUE)

CollusionNext ==
    \/ CollusionInitialize
    \/ CollusionRunEpoch
    \/ CollusionDecide
    \/ CollusionProcess
    \/ UpdateState
    \/ FinishEpoch

CollusionSpec == CollusionInit /\ [][CollusionNext]_vars

(* ------------------ builder-sdk: CircuitBreaker ------------------------ *)
MaxThreshold == 3
MaxResetTimeout == 2
MaxTime == 4
MaxCalls == 6
MaxCallTime == 1

should_attempt_reset_Always(b, now) == TRUE

(* CircuitBreaker._should_attempt_reset *)
should_attempt_reset(b, now) ==
    IF b.last_failure_time = None THEN TRUE
    ELSE now - b.last_failure_time >= b.reset_timeout

on_success_OneSuffices(b) ==
    LET b1 == [b EXCEPT !.failure_count = 0]
    IN IF b.state = "half_open"
       THEN [b1 EXCEPT !.state = "closed", !.success_count = 0]
       ELSE b1

(* CircuitBreaker._on_success *)
on_success(b) ==
    LET b1 == [b EXCEPT !.failure_count = 0]
        b2 == [b1 EXCEPT !.success_count = @ + 1]
    IN IF b.state = "half_open"
       THEN IF b2.success_count >= 2
            THEN [b2 EXCEPT !.state = "closed", !.success_count = 0]
            ELSE b2
       ELSE b1

on_failure_Late(b, now) ==
    LET b1 == [b EXCEPT !.failure_count = @ + 1, !.last_failure_time = now]
    IN IF b.state = "half_open"
       THEN [b1 EXCEPT !.state = "open", !.success_count = 0]
       ELSE IF b1.failure_count > b.failure_threshold
       THEN [b1 EXCEPT !.state = "open"]
       ELSE b1

(* CircuitBreaker._on_failure, at time now *)
on_failure(b, now) ==
    LET b1 == [b EXCEPT !.failure_count = @ + 1, !.last_failure_time = now]
    IN IF b.state = "half_open"
       THEN [b1 EXCEPT !.state = "open", !.success_count = 0]
       ELSE IF b1.failure_count >= b.failure_threshold
       THEN [b1 EXCEPT !.state = "open"]
       ELSE b1

(* CircuitBreaker.call begun at time now on a function that takes dt and   *)
(* raises or returns                                                       *)
call(b, now, func_raises, dt) ==
    IF b.state = "open" /\ ~should_attempt_reset(b, now)
    THEN [ breaker |-> b, invoked |-> FALSE, outcome |-> "rejected" ]
    ELSE LET b0 == IF b.state = "open" THEN [b EXCEPT !.state = "half_open"] ELSE b
         IN IF func_raises
            THEN [ breaker |-> on_failure(b0, now + dt), invoked |-> TRUE,
                   outcome |-> "raised" ]
            ELSE [ breaker |-> on_success(b0), invoked |-> TRUE, outcome |-> "returned" ]

idle_vars == << config, engine_vars, rng, sweep_vars, sensitivity_stats >>

(* nothing but the SDK object under study is in use *)
Idle ==
    /\ config = BaseConfig
    /\ NewModel
    /\ rng = 0
    /\ sweep_pc = "none"
    /\ NoSweep
    /\ sensitivity_stats = NoSensitivity

BreakerInit ==
    /\ Idle
    /\ \E failure_threshold \in 1..MaxThreshold, reset_timeout \in 0..MaxResetTimeout :
          breaker = CircuitBreaker(failure_threshold, reset_timeout)
    /\ clock = 0
    /\ breaker_call = NoBreakerCall
    /\ accountant = PrivacyAccountant(0)
    /\ accountant_call = NoAccountantCall

(* cb.call(func) *)
Call(func_raises, dt) ==
    /\ breaker_call.n < MaxCalls
    /\ clock + dt <= MaxTime
    /\ LET r == call(breaker, clock, func_raises, dt)
       IN /\ breaker' = r.breaker
          /\ clock' = IF r.invoked THEN clock + dt ELSE clock
          /\ breaker_call' =
                [ n |-> breaker_call.n + 1, at |-> clock, before |-> breaker,
                  invoked |-> r.invoked, func_raises |-> func_raises,
                  outcome |-> r.outcome,
                  run |-> IF ~r.invoked THEN breaker_call.run
                          ELSE IF func_raises THEN breaker_call.run + 1 ELSE 0 ]
    /\ UNCHANGED << idle_vars, accountant, accountant_call >>

(* time passes between calls *)
Tick ==
    /\ clock < MaxTime
    /\ clock' = clock + 1
    /\ UNCHANGED << idle_vars, breaker, breaker_call, accountant, accountant_call >>

CallFunction == \E func_raises \in BOOLEAN, dt \in 0..MaxCallTime : Call(func_raises, dt)

BreakerNext ==
    \/ CallFunction
    \/ Tick

BreakerSpec == BreakerInit /\ [][BreakerNext]_vars

(* --------------- agent-backend: PrivacyAccountant ---------------------- *)
MaxBudget == 2
MaxEpsilon == 2
MaxOps == 4
JobHistoryLimit == 100
UserIds == {"alice", "bob"}

(* PrivacyAccountant.get_user_budget *)
get_user_budget(acc, user_id) ==
    IF user_id \notin DOMAIN acc.users THEN acc.default_budget
    ELSE Max(0, acc.users[user_id].budget - acc.users[user_id].consumed_epsilon)

check_budget_Always(acc, user_id, required_epsilon) == TRUE

(* PrivacyAccountant.check_budget: has_sufficient_budget *)
check_budget(acc, user_id, required_epsilon) ==
    ~(required_epsilon > get_user_budget(acc, user_id))

NewUser(budget) == [ budget |-> budget, consumed_epsilon |-> 0, jobs |-> <<>> ]

LastJobs(jobs) ==
    IF Len(jobs) > JobHistoryLimit
    THEN SubSeq(jobs, Len(jobs) - JobHistoryLimit + 1, Len(jobs))
    ELSE jobs

(* PrivacyAccountant.consume_epsilon *)
consume_epsilon(acc, user_id, epsilon, job_id) ==
    IF epsilon <= 0 \/ ~check_budget(acc, user_id, epsilon)
    THEN [ returned |-> FALSE, accountant |-> acc ]
    ELSE LET users1 == IF user_id \in DOMAIN acc.users THEN acc.users
                       ELSE acc.users @@ (user_id :> NewUser(acc.default_budget))
             acc2 == [acc EXCEPT !.users = [users1 EXCEPT ![user_id].consumed_epsilon = @ + epsilon]]
             job_record == [ job_id |-> job_id, epsilon |-> epsilon,
                             remaining_budget |-> get_user_budget(acc2, user_id) ]
         IN [ returned |-> TRUE,
              accountant |-> [acc2 EXCEPT !.users[user_id].jobs = LastJobs(Append(@, job_record))] ]

(* PrivacyAccountant.set_user_budget *)
set_user_budget(acc, user_id, budget) ==
    IF budget < 0 THEN [ returned |-> FALSE, accountant |-> acc ]
    ELSE [ returned |-> TRUE,
           accountant |->
             IF user_id \in DOMAIN acc.users
             THEN [acc EXCEPT !.users[user_id].budget = budget]
             ELSE [acc EXCEPT !.users = @ @@ (user_id :> NewUser(budget))] ]

(* PrivacyAccountant.reset_user_budget *)
reset_user_budget(acc, user_id) ==
    IF user_id \in DOMAIN acc.users
    THEN [ returned |-> TRUE,
           accountant |-> [acc EXCEPT !.users[user_id].consumed_epsilon = 0,
                                      !.users[user_id].jobs = <<>>] ]
    ELSE [ returned |-> FALSE, accountant |-> acc ]

AccountantInit ==
    /\ Idle
    /\ breaker = CircuitBreaker(0, 0)
    /\ clock = 0
    /\ breaker_call = NoBreakerCall
    /\ \E default_budget \in 1..MaxBudget : accountant = PrivacyAccountant(default_budget)
    /\ accountant_call = NoAccountantCall

ConsumedBy(acc, user_id) ==
    IF user_id \in DOMAIN acc.users THEN acc.users[user_id].consumed_epsilon ELSE 0

(* one operation: its result r, recorded in the history *)
AccountantStep(op, user_id, epsilon, r, unfixed) ==
    /\ accountant_call.n < MaxOps
    /\ accountant' = r.accountant
    /\ accountant_call' =
          [ n |-> accountant_call.n + 1, op |-> op, user_id |-> user_id,
            epsilon |-> epsilon, before |-> accountant,
            available |-> get_user_budget(accountant, user_id),
            returned |-> r.returned, unfixed |-> unfixed ]
    /\ UNCHANGED << idle_vars, breaker, clock, breaker_call >>

CheckBudget ==
    \E user_id \in UserIds, epsilon \in 0..MaxEpsilon :
        AccountantStep("check", user_id, epsilon,
                       [ returned |-> check_budget(accountant, user_id, epsilon),
                         accountant |-> accountant ],
                       accountant_call.unfixed)

ConsumeEpsilon ==
    \E user_id \in UserIds, epsilon \in 0..MaxEpsilon :
        AccountantStep("consume", user_id, epsilon,
                       consume_epsilon(accountant, user_id, epsilon, accountant_call.n),
                       accountant_call.unfixed)

SetUserBudget ==
    \E user_id \in UserIds, budget \in (-1)..MaxBudget :
        AccountantStep("set", user_id, budget,
                       set_user_budget(accountant, user_id, budget),
                       IF budget >= 0 /\ ConsumedBy(accountant, user_id) > 0
                       THEN accountant_call.unfixed \cup {user_id}
                       ELSE accountant_call.unfixed)

ResetUserBudget ==
    \E user_id \in UserIds :
        AccountantStep("reset", user_id, 0, reset_user_budget(accountant, user_id),
                       accountant_call.unfixed \ {user_id})

AccountantNext ==
    \/ CheckBudget
    \/ ConsumeEpsilon
    \/ SetUserBudget
    \/ ResetUserBudget

AccountantSpec == AccountantInit /\ [][AccountantNext]_vars

(* ============================== claims ================================= *)
CountType(t) == Cardinality({ i \in DOMAIN agents : agents[i].agent_type = t })

(* C1: the reputation of every agent is within [0, 1] in every reachable   *)
(* state: after initialize_agents, after every update_state and after      *)
(* every end-of-epoch decay with a decay rate in [0, 1].                   *)
C1_ReputationBounded ==
    \A i \in DOMAIN agents : agents[i].reputation >= 0 /\ agents[i].reputation <= ONE

(* a hoarder whose decayed reputation plus the hoarding bonus of 0.1       *)
(* exceeded 1 was updated and holds exactly 1                              *)
C1_Witness ==
    /\ pc = "decay"
    /\ epoch >= 2
    /\ \E k \in DOMAIN outcomes :
          /\ outcomes[k].reputation_change = 10
          /\ agents[outcomes[k].agent_id + 1].agent_type = "hoarder"
          /\ agents[outcomes[k].agent_id + 1].reputation = ONE

(* C2: the stake of every agent is non-negative in every reachable state,  *)
(* whatever rewards, penalties and disputes were applied to it.            *)
C2_StakeNonNegative ==
    \A i \in DOMAIN agents : agents[i].stake >= 0

(* an agent of a reinvesting archetype took a net loss *)
C2_Witness ==
    \E i \in DOMAIN agents :
        /\ agents[i].agent_type \in {"honest", "hoarder"}
        /\ agents[i].balance < 0
        /\ agents[i].disputes_lost > 0

Rewards(os) == [ k \in 1..Len(os) |-> os[k].reward ]

(* C3: in every run_epoch the increase of total_revenue equals the sum of  *)
(* the rewards of the outcomes of that epoch, each gross reward added      *)
(* once and no penalty subtracted; the returned summary carries both.      *)
C3_RevenueConservation ==
    /\ total_revenue - revenue_at_entry = SumSeq(Rewards(outcomes))
    /\ (pc = "idle" /\ epoch > 0) =>
          /\ epoch_result.outcomes = outcomes
          /\ epoch_result.total_revenue = total_revenue

(* a second epoch returned several outcomes, one of them with a penalty *)
C3_Witness ==
    /\ pc = "idle"
    /\ epoch = 2
    /\ revenue_at_entry > 0
    /\ Len(outcomes) >= 2
    /\ \E k \in DOMAIN outcomes : outcomes[k].penalty > 0

SameRun(a, b) ==
    /\ a.run_id = b.run_id
    /\ a.stake_level = b.stake_level
    /\ a.reputation_decay = b.reputation_decay
    /\ a.collusion_size = b.collusion_size
    /\ a.sybil_cost = b.sybil_cost

(* C4: two executions of run_single_simulation on the same configuration   *)
(* document with the same parameter tuple and the same run index return    *)
(* identical rows, whatever runs were executed between them.               *)
C4_Determinism ==
    \A i, j \in DOMAIN results :
        SameRun(results[i], results[j]) => results[i] = results[j]

(* the same run was executed twice with other runs in between, and it      *)
(* issued revenue                                                          *)
C4_Witness ==
    \E i, j \in DOMAIN results :
        /\ j > i + 1
        /\ SameRun(results[i], results[j])
        /\ results[i].total_revenue > 0
        /\ \E k \in (i + 1)..(j - 1) : results[k].total_revenue # results[i].total_revenue

(* the calls a complete sweep of n grid points makes, r runs each *)
AllAttempts(n, r) == [ k \in 1..(n * r) |-> << 1 + ((k - 1) \div r), (k - 1) % r >> ]

(* the attempts made so far whose call has ended *)
EndedAttempts ==
    IF sweep_pc \in {"created", "running"}
    THEN SubSeq(attempts, 1, Len(attempts) - 1)
    ELSE attempts

Succeeded(as) == SelectSeq(as, LAMBDA a : a \notin Range(errors))

RowIsOf(row, a) ==
    /\ row.run_id = a[2]
    /\ << row.stake_level, row.reputation_decay, row.collusion_size, row.sybil_cost >>
         = param_combinations[a[1]]

(* C5: a sweep over axes of sizes N1..N4 with R repetitions attempts every *)
(* (grid point, run index) pair exactly once, in order, and returns        *)
(* N1*N2*N3*N4*R rows minus one per repetition that raised.                *)
C5_GridCompleteness ==
    /\ (sweep_pc = "loop" /\ attempts = <<>>) =>
          /\ Len(param_combinations) =
                IF smoke_test THEN 1
                ELSE Len(config.stake_levels) * Len(config.reputation_decay.list)
                       * Len(config.collusion_size) * Len(config.sybil_cost)
          /\ runs_per_point = IF smoke_test THEN 1 ELSE config.runs_per_point
          /\ ~smoke_test =>
                \A a \in Range(config.stake_levels), b \in Range(config.reputation_decay.list),
                   c \in Range(config.collusion_size), e \in Range(config.sybil_cost) :
                      << a, b, c, e >> \in Range(param_combinations)
    /\ sweep_pc = "done" =>
          /\ attempts = AllAttempts(Len(param_combinations), runs_per_point)
          /\ Len(results) = Len(param_combinations) * runs_per_point - Len(errors)

(* a full sweep of eight grid points, two runs each, ended with rows and   *)
(* with caught failures                                                    *)
C5_Witness ==
    /\ sweep_pc = "done"
    /\ Len(param_combinations) = 8
    /\ runs_per_point = 2
    /\ errors # <<>>
    /\ results # <<>>

(* C6: a repetition that raises contributes no row and does not end the    *)
(* sweep; every other repetition, before or after it, at the same or at    *)
(* another grid point, runs and contributes its row.                       *)
C6_FailureIsolation ==
    /\ sweep_pc = "raised" => attempts = <<>>
    /\ Range(errors) \subseteq Range(EndedAttempts)
    /\ Len(results) = Len(Succeeded(EndedAttempts))
    /\ \A k \in DOMAIN results : RowIsOf(results[k], Succeeded(EndedAttempts)[k])
    /\ sweep_pc = "done" =>
          Range(attempts) = Range(AllAttempts(Len(param_combinations), runs_per_point))

(* a sweep ended in which a repetition failed between two that succeeded   *)
(* and another run of the failed grid point contributed its row            *)
C6_Witness ==
    /\ sweep_pc = "done"
    /\ \E a, e, b \in DOMAIN attempts :
          /\ a < e /\ e < b
          /\ attempts[e] \in Range(errors)
          /\ attempts[a] \notin Range(errors)
          /\ attempts[b] \notin Range(errors)
    /\ \E e \in Range(errors), a \in Range(attempts) :
          a[1] = e[1] /\ a \notin Range(errors)

(* keys run_single_simulation and the engine read *)
NeededKeys ==
    {"seed"} \cup NetworkKeys
      \cup { "economic.base_reward", "economic.reputation_multiplier",
             "economic.dispute_cost", "economic.dispute_penalty",
             "attacks.collusion_detection_prob", "attacks.collusion_penalty_multiplier",
             "attacks.griefing_cost", "attacks.griefing_effectiveness",
             "attacks.hoarding_cost", "attacks.hoarding_efficiency",
             "simulation.epochs", "simulation.warmup_epochs",
             "simulation.transactions_per_epoch" }

(* C7: when the configuration lacks a key the simulation needs, the error  *)
(* is raised before any agent is initialized and before any epoch runs,    *)
(* and it is not swallowed as a skipped repetition.                        *)
C7_ConfigErrorsFailFast ==
    (config.absent \cap NeededKeys # {}) =>
        /\ agents = <<>>
        /\ epoch = 0
        /\ errors = <<>>

(* C8: after initialize_agents the number of agents of each archetype is   *)
(* floor(percentage * N).                                                  *)
C8_ArchetypeCounts ==
    pc # "new" =>
        /\ CountType("honest") = CountOf(config.network.total_agents, config.network.honest_percentage)
        /\ CountType("colluder") = CountOf(config.network.total_agents, config.network.colluder_percentage)
        /\ CountType("griefer") = CountOf(config.network.total_agents, config.network.griefer_percentage)
        /\ CountType("hoarder") = CountOf(config.network.total_agents, config.network.hoarder_percentage)

(* C9: with collusion_detection_prob = 1, a colluder population and at     *)
(* least one collusion attempt (each one detected), the reported           *)
(* collusion_detection_rate is exactly 1.                                  *)
C9_DetectionRateIsOne ==
    ( /\ pc = "done"
      /\ config.attacks.collusion_detection_prob = ONE
      /\ CountType("colluder") > 0
      /\ collusion_detections >= 1 )
    => result.collusion_detection_rate = ONE

(* C10: with 100% honest agents the population is N Honest agents and the  *)
(* result has no collusion detection, no griefing effectiveness, no        *)
(* hoarding influence, no successful attack and a liveness of 1.           *)
C10_HonestOnly ==
    config.network.honest_percentage = ONE =>
        /\ pc # "new" =>
              /\ Len(agents) = config.network.total_agents
              /\ \A i \in DOMAIN agents : agents[i].agent_type = "honest"
        /\ pc = "done" =>
              /\ result.collusion_detection_rate = 0
              /\ result.griefing_effectiveness = 0
              /\ result.hoarding_influence = 0
              /\ result.successful_attacks = 0
              /\ result.liveness_score = ONE

(* the result of two epochs of two honest agents, disputes included *)
C10_Witness ==
    /\ pc = "done"
    /\ config.network.honest_percentage = ONE
    /\ config.network.total_agents = 2
    /\ epoch = 2
    /\ dispute_resolutions > 0

(* C11: with 100% honest agents and zero attack parameters the reported    *)
(* honest_share_of_revenue is 1.0 after any number of epochs and for any   *)
(* base reward, also when the total revenue issued is less than 1.         *)
C11_HonestShareIsOne ==
    ( /\ pc = "done"
      /\ config.network.honest_percentage = ONE
      /\ config.attacks = ZeroAttacks
      /\ total_revenue > 0 )
    => result.honest_share_of_revenue = ONE

(* C19: every outcome of _process_actions has reward >= 0 and penalty >= 0 *)
(* for reputations and qualities in [0, 1] and non-negative configuration  *)
(* constants, a reputation_multiplier above 2 included.                    *)
C19_OutcomesNonNegative ==
    \A k \in DOMAIN outcomes : outcomes[k].reward >= 0 /\ outcomes[k].penalty >= 0

(* C13: a run does not modify the configuration it is given: the document  *)
(* is the same after every step of a sweep, the reputation_decay axis list *)
(* and attacks.sybil_cost included.                                        *)
C13_ConfigUnchanged == [][config' = config]_vars

(* C14: after initialize_agents every identity listed in a collusion group *)
(* is the agent_id of a Colluder agent of the population.                  *)
C14_GroupMembersAreColluders ==
    pc # "new" =>
        \A i \in DOMAIN agents :
            \A id \in Range(agents[i].collusion_group) :
                \E j \in DOMAIN agents :
                    agents[j].agent_id = id /\ agents[j].agent_type = "colluder"

(* C18: when an outcome is applied to an Honest agent its stake grows by   *)
(* 10% of the net profit reward - penalty if that is positive and is       *)
(* unchanged otherwise.                                                    *)
C18_HonestReinvestsNetProfit ==
    [][ pc = "update" =>
          LET o == outcomes[idx]
              i == o.agent_id + 1
          IN agents[i].agent_type = "honest" =>
                agents'[i].stake =
                    agents[i].stake
                      + (IF o.reward - o.penalty > 0 THEN Mul(o.reward - o.penalty, 10) ELSE 0) ]_vars

DisputesOf(as) == SumSeq([ i \in 1..Len(as) |-> as[i].disputes_won + as[i].disputes_lost ])

(* C20: in every reachable state of a run dispute_resolutions equals the   *)
(* sum over all agents of disputes_won + disputes_lost.                    *)
C20_DisputeCounters ==
    dispute_resolutions = DisputesOf(agents)

(* two agents, disputes won and disputes lost, more than one per agent *)
C20_Witness ==
    /\ Len(agents) = 2
    /\ dispute_resolutions >= 3
    /\ \E i \in DOMAIN agents : agents[i].disputes_won > 0
    /\ \E i \in DOMAIN agents : agents[i].disputes_lost > 0

AxisValues(param) == { results[i][param] : i \in DOMAIN results }

(* C12: calculate_parameter_sensitivity emits a row for a (parameter,      *)
(* metric) pair only when the axis has at least 2 distinct values in the   *)
(* raw table; an axis with exactly one distinct value yields no row and no *)
(* error.                                                                  *)
C12_SensitivityRows ==
    sweep_pc = "analysed" =>
        /\ \A k \in DOMAIN sensitivity_stats.rows :
              Cardinality(AxisValues(sensitivity_stats.rows[k].parameter)) >= 2
        /\ \A param \in Range(SensitivityParams) :
              Cardinality(AxisValues(param)) = 1 =>
                  /\ ~sensitivity_stats.raised
                  /\ \A k \in DOMAIN sensitivity_stats.rows :
                        sensitivity_stats.rows[k].parameter # param

(* a table with a single-valued axis and a two-valued axis was analysed:   *)
(* three rows for the second, none for the first, a non-zero slope         *)
C12_Witness ==
    /\ sweep_pc = "analysed"
    /\ Cardinality(AxisValues("sybil_cost")) = 1
    /\ Cardinality(AxisValues("stake_level")) = 2
    /\ Cardinality({ k \in DOMAIN sensitivity_stats.rows :
                        sensitivity_stats.rows[k].parameter = "stake_level" }) = 3
    /\ \E k \in DOMAIN sensitivity_stats.rows : sensitivity_stats.rows[k].sensitivity # 0

(* C15: a CLOSED circuit breaker opens exactly when its count of           *)
(* consecutive failed calls reaches failure_threshold; with fewer it stays *)
(* CLOSED; a successful call resets the failure count to 0 and leaves it   *)
(* CLOSED; the failing call's own exception reaches the caller.            *)
C15_OpensAtThreshold ==
    /\ breaker.state = "closed" =>
          /\ breaker.failure_count = breaker_call.run
          /\ breaker_call.run < breaker.failure_threshold
    /\ (breaker_call.n > 0 /\ breaker_call.before.state = "closed") =>
          /\ breaker_call.invoked
          /\ breaker_call.func_raises =>
                /\ breaker_call.outcome = "raised"
                /\ breaker.failure_count = breaker_call.run
                /\ breaker.state = IF breaker_call.run = breaker.failure_threshold
                                   THEN "open" ELSE "closed"
          /\ ~breaker_call.func_raises =>
                /\ breaker_call.outcome = "returned"
                /\ breaker.state = "closed"
                /\ breaker.failure_count = 0

(* the third failure in a row opened a breaker of threshold 3 that a       *)
(* success had reset before                                                *)
C15_Witness ==
    /\ breaker.failure_threshold = 3
    /\ breaker_call.n >= 5
    /\ breaker_call.before.state = "closed"
    /\ breaker_call.before.failure_count = 2
    /\ breaker_call.outcome = "raised"
    /\ breaker.state = "open"

(* C16: while a breaker is OPEN and less than reset_timeout has elapsed    *)
(* since its last failure, a call raises CircuitBreakerOpenError without   *)
(* invoking the function and leaves state, failure count and last failure  *)
(* time unchanged.                                                         *)
C16_RejectsWhileOpen ==
    ( /\ breaker_call.n > 0
      /\ breaker_call.before.state = "open"
      /\ breaker_call.before.last_failure_time # None
      /\ breaker_call.at - breaker_call.before.last_failure_time
            < breaker_call.before.reset_timeout )
    => /\ breaker_call.outcome = "rejected"
       /\ ~breaker_call.invoked
       /\ breaker.state = "open"
       /\ breaker.failure_count = breaker_call.before.failure_count
       /\ breaker.last_failure_time = breaker_call.before.last_failure_time

(* a call was rejected one time unit after the failure that opened the     *)
(* breaker, with a reset timeout of two                                    *)
C16_Witness ==
    /\ breaker_call.outcome = "rejected"
    /\ breaker_call.before.state = "open"
    /\ breaker_call.before.reset_timeout = 2
    /\ breaker_call.at - breaker_call.before.last_failure_time = 1
    /\ breaker = breaker_call.before

C21_AlwaysActive ==
    /\ \A i \in DOMAIN agents : agents[i].is_active
    /\ pc \in {"decide", "process", "update", "decay"} =>
          /\ network_state.total_agents = Len(agents)
          /\ network_state.liveness = ONE
    /\ (pc = "idle" /\ epoch >= 1) => epoch_result.active_agents = Len(agents)
    /\ pc = "done" => result.liveness_score = ONE

(* a reported result after two epochs of a population with an agent below  *)
(* the solvency floor                                                      *)
C21_Witness ==
    /\ pc = "done"
    /\ epoch = MaxEpochs
    /\ \E i \in DOMAIN agents : ~is_solvent(agents[i]) /\ agents[i].is_active
    /\ result.liveness_score = ONE

(* C22: the row of a run leaves out the warmup: after a run whose warmup   *)
(* is every epoch but the last, the total_revenue of its row is what the   *)
(* last epoch added, not what the warmup epochs added before it.           *)
C22_RowExcludesWarmup ==
    ( /\ pc = "done"
      /\ results # <<>>
      /\ config.simulation.warmup_epochs = epoch - 1 )
    => results[Len(results)].total_revenue = total_revenue - revenue_at_entry

(* the collusion groups of a population, in the order of their colluders *)
GroupsOf(as) ==
    LET cs == SelectSeq(as, LAMBDA a : a.agent_type = "colluder")
    IN [ g \in 1..Len(cs) |-> cs[g].collusion_group ]

(* colluder identities that are in no group *)
Discarded(as, num_colluders) ==
    (0..(num_colluders - 1)) \ UNION { Range(GroupsOf(as)[g]) : g \in DOMAIN GroupsOf(as) }

(* members of the last slice of num_colluders identities cut by group_size *)
(* when that slice has fewer than 2 members, otherwise 0                   *)
TrailingSmall(num_colluders, group_size) ==
    LET last == IF num_colluders % group_size = 0
                THEN Min(num_colluders, group_size)
                ELSE num_colluders % group_size
    IN IF last < MinGroupSize THEN last ELSE 0

(* groups of distinct colluder identities, pairwise disjoint, of 2 to      *)
(* group_size members                                                      *)
GroupsDisjoint(as, num_colluders, group_size) ==
    LET gs == GroupsOf(as)
    IN /\ \A g \in DOMAIN gs :
             /\ Len(gs[g]) >= MinGroupSize
             /\ Len(gs[g]) <= group_size
             /\ Cardinality(Range(gs[g])) = Len(gs[g])
             /\ Range(gs[g]) \subseteq 0..(num_colluders - 1)
       /\ \A g, h \in DOMAIN gs : g # h => Range(gs[g]) \cap Range(gs[h]) = {}

NumColluders == CountOf(config.network.total_agents, config.network.colluder_percentage)

C23_GroupsWellFormed ==
    pc # "new" =>
        /\ GroupsDisjoint(agents, NumColluders, config.collusion_size[1])
        /\ Cardinality(Discarded(agents, NumColluders)) =
              IF config.collusion_size[1] = 1 THEN NumColluders
              ELSE TrailingSmall(NumColluders, config.collusion_size[1])

(* C23, amended: for every colluder count and every group size >= 1 the    *)
(* collusion groups formed at initialization are pairwise disjoint, each   *)
(* has at least 2 and at most group-size members, every slice of fewer     *)
(* than 2 identities is discarded (the trailing one for a group size >= 2, *)
(* every slice for group size 1), and no group is modified after           *)
(* initialization.                                                         *)
C23_Groups ==
    /\ []C23_GroupsWellFormed
    /\ [][pc # "new" => GroupsOf(agents') = GroupsOf(agents)]_vars

(* two groups and a discarded trailing identity, after a complete epoch *)
C23_Witness ==
    /\ pc = "idle"
    /\ epoch >= 1
    /\ Len(GroupsOf(agents)) = 2
    /\ Cardinality(Discarded(agents, NumColluders)) = 1

(* C23 as stated: the groups are pairwise disjoint, each has 2 to          *)
(* group-size members, and only a trailing group smaller than 2 is         *)
(* discarded.                                                              *)
C23_OnlyTrailingDiscarded ==
    pc # "new" =>
        /\ GroupsDisjoint(agents, NumColluders, config.collusion_size[1])
        /\ Cardinality(Discarded(agents, NumColluders)) =
              TrailingSmall(NumColluders, config.collusion_size[1])

(* the phase of run_epoch a state is in, and the phases that may follow it *)
PhaseAfter(phase) ==
    CASE phase = "idle" -> {"decide", "done", "raised"}
      [] phase = "decide" -> {"decide", "process", "decay"}
      [] phase = "process" -> {"process", "update", "raised"}
      [] phase = "update" -> {"update", "decay"}
      [] phase = "decay" -> {"idle", "raised"}
      [] OTHER -> {"idle", "raised"}

(* no outcome is computed before every agent decided, none is applied      *)
(* before every outcome is computed                                        *)
C24_Collected ==
    /\ pc = "decide" => /\ outcomes = <<>>
                        /\ network_state.epoch = epoch
    /\ pc = "process" =>
          /\ Len(actions) = Cardinality({ i \in DOMAIN agents : is_solvent(agents[i]) })
          /\ Len(outcomes) = idx - 1
    /\ pc = "update" => Len(outcomes) = Len(actions)

(* C24: run_epoch goes through its phases in a fixed order: the epoch      *)
(* counter and the snapshot, every decision, every outcome computed,       *)
(* every outcome applied, the decay, the total stake. Every decision of    *)
(* an epoch observes the same snapshot, and no reputation changes before   *)
(* the outcomes are applied, so every base reward is computed from the     *)
(* reputation at the start of the epoch.                                   *)
C24_PhaseOrder ==
    /\ []C24_Collected
    /\ [][ /\ pc' \in PhaseAfter(pc)
           /\ (pc = "idle" /\ pc' = "decide") =>
                 /\ epoch' = epoch + 1
                 /\ network_state' = get_network_state(agents, total_stake, epoch + 1)
           /\ pc \in {"decide", "process", "update"} =>
                 /\ network_state' = network_state
                 /\ epoch' = epoch
           /\ pc \in {"decide", "process"} =>
                 \A i \in DOMAIN agents :
                    /\ agents'[i].reputation = agents[i].reputation
                    /\ agents'[i].stake = agents[i].stake
           /\ pc \in {"idle", "decide", "process", "update"} =>
                 total_stake' = total_stake ]_vars

(* the second epoch, two outcomes computed and the first one applied *)
C24_Witness ==
    /\ pc = "update"
    /\ epoch = 2
    /\ idx = 2
    /\ Len(outcomes) = 2

(* C25: once reset_timeout has elapsed since the last failure, the next    *)
(* call on an OPEN breaker moves it to HALF_OPEN and invokes the function. *)
(* From HALF_OPEN the breaker returns to CLOSED only after 2 successful    *)
(* calls, with the success count back at 0; a failed call in HALF_OPEN     *)
(* reopens it at once.                                                     *)
C25_HalfOpenRecovery ==
    /\ breaker.state = "half_open" => breaker.success_count = 1
    /\ breaker.state \in {"closed", "open"} => breaker.success_count = 0
    /\ breaker_call.n > 0 =>
          LET b == breaker_call.before
          IN /\ ( /\ b.state = "open"
                  /\ breaker_call.at - b.last_failure_time >= b.reset_timeout ) =>
                    /\ breaker_call.invoked
                    /\ breaker.state = IF breaker_call.func_raises THEN "open" ELSE "half_open"
             /\ b.state = "half_open" =>
                    /\ breaker_call.invoked
                    /\ breaker.state = IF breaker_call.func_raises THEN "open" ELSE "closed"
             /\ (breaker.state = "closed" /\ b.state # "closed") =>
                    /\ b.state = "half_open"
                    /\ b.success_count = 1
                    /\ ~breaker_call.func_raises

(* a breaker with a reset timeout that last failed after time had passed   *)
(* and closes from HALF_OPEN at its fifth call or a later one              *)
C25_Witness ==
    /\ breaker_call.n >= 5
    /\ breaker.reset_timeout >= 1
    /\ breaker_call.before.state = "half_open"
    /\ breaker_call.before.last_failure_time > 0
    /\ breaker.state = "closed"

(* C26: after initialize_agents the agent at position i (from 0) has       *)
(* agent_id i, so every action and every outcome carries the position of   *)
(* the agent that decided it and is applied to that agent.                 *)
C26_IdIsPosition ==
    /\ \A i \in DOMAIN agents : agents[i].agent_id = i - 1
    /\ \A k \in DOMAIN actions :
          /\ actions[k].agent_id + 1 \in DOMAIN agents
          /\ agents[actions[k].agent_id + 1].agent_type = actions[k].agent_type
    /\ pc \in {"process", "update"} =>
          \A k \in DOMAIN outcomes :
             /\ outcomes[k].agent_id = actions[k].agent_id
             /\ agents[outcomes[k].agent_id + 1].agent_type = outcomes[k].agent_type

(* the first agent is below the solvency floor, so the first outcome of    *)
(* the epoch belongs to the second agent, of another archetype             *)
C26_Witness ==
    /\ pc = "update"
    /\ Len(agents) = 2
    /\ ~is_solvent(agents[1])
    /\ agents[1].agent_type # agents[2].agent_type
    /\ outcomes[1].agent_id = 1

(* C27: after initialization and after every completed epoch the           *)
(* cumulative revenues of the agents add up to the total_revenue of the    *)
(* model, and the balance of every agent is its cumulative revenue less    *)
(* its cumulative losses.                                                  *)
C27_RevenueBooks ==
    pc \in {"idle", "done"} =>
        /\ SumSeq([ i \in 1..Len(agents) |-> agents[i].total_revenue ]) = total_revenue
        /\ \A i \in DOMAIN agents :
              agents[i].balance = agents[i].total_revenue - agents[i].total_losses

(* two epochs completed, both agents earned, one of them took losses *)
C27_Witness ==
    /\ pc = "idle"
    /\ epoch = 2
    /\ Len(agents) = 2
    /\ \A i \in DOMAIN agents : agents[i].total_revenue > 0
    /\ \E i \in DOMAIN agents : agents[i].total_losses > 0

C29_OnlySolventAct ==
    /\ \A k \in DOMAIN actions :
          agents[actions[k].agent_id + 1].stake >= SolvencyFloor
    /\ \A k \in DOMAIN outcomes :
          agents[outcomes[k].agent_id + 1].stake >= SolvencyFloor

(* C29: no stake ever decreases. An agent whose stake is below 0.1 is      *)
(* never asked to decide and gets no outcome: it stays below the floor,    *)
(* and its stake, balance, revenue, losses and dispute counts never change *)
(* again; only its reputation decays.                                      *)
C29_InsolventForGood ==
    /\ []C29_OnlySolventAct
    /\ [][ \A i \in DOMAIN agents :
              /\ agents'[i].stake >= agents[i].stake
              /\ agents[i].stake < SolvencyFloor =>
                    /\ agents'[i] = [agents[i] EXCEPT !.reputation = agents'[i].reputation]
                    /\ agents'[i].reputation <= agents[i].reputation
                    /\ (agents'[i].reputation # agents[i].reputation => pc = "decay") ]_vars

(* after two epochs an agent below the floor has nothing but a decayed     *)
(* reputation, next to an agent whose stake grew                           *)
C29_Witness ==
    /\ pc = "idle"
    /\ epoch = 2
    /\ \E i, j \in DOMAIN agents :
          /\ agents[i].stake < SolvencyFloor
          /\ agents[i].agent_type = "honest"
          /\ agents[i].reputation < HonestReputation
          /\ agents[i].balance = 0
          /\ agents[j].stake > SolvencyFloor

(* calculate_summary_statistics, lines 212-214: the attack_success_rate of *)
(* the rows of one grid point                                              *)
attack_success_rate(group) ==
    LET successful == SumSeq([ k \in 1..Len(group) |-> group[k].successful_attacks ])
        failed == SumSeq([ k \in 1..Len(group) |-> group[k].failed_attacks ])
    IN (successful * ONE) \div Max(1, successful + failed)

(* C30: in every result the attack counts are non-negative and consistent: *)
(* failed_attacks >= 0, successful_attacks is at most the number of        *)
(* colluders, and the attack_success_rate the summary statistics derive    *)
(* from the row of the run lies in [0, 1].                                 *)
C30_AttackCountsConsistent ==
    pc = "done" =>
        /\ result.failed_attacks >= 0
        /\ result.successful_attacks >= 0
        /\ result.successful_attacks <= CountType("colluder")
        /\ attack_success_rate(<<result>>) \in 0..ONE

==============================================================================
